---------------------------- MODULE Spec2Model ----------------------------
(***************************************************************************)
(* Model of match_wrapper/match.py: the FlagFormatter class and the four   *)
(* command builders calcsfh, hybridMC, zcmerge and zcombine.               *)
(*                                                                         *)
(* Python values are records [t, n, s, e]: t is the type tag, n the number *)
(* (an int, a bool as 0/1, or a float in hundredths), s the text of a      *)
(* string (or the name of an object), e the elements of a list or tuple.   *)
(* Strings are TLA+ strings built with \o, so that two command strings are *)
(* equal exactly when their characters are.                                *)
(***************************************************************************)
EXTENDS Integers, Sequences, FiniteSets, TLC

\* Longest list or tuple value, and longest sequence of format strings.
MaxLen == 3

\* Longest list of input files handed to zcmerge / zcombine.
MaxFiles == 2

-----------------------------------------------------------------------------
(* Python values *)

PyNone == [t |-> "None", n |-> 0, s |-> "", e |-> <<>>]
PyBool(b) == [t |-> "bool", n |-> IF b THEN 1 ELSE 0, s |-> "", e |-> <<>>]
PyInt(i) == [t |-> "int", n |-> i, s |-> "", e |-> <<>>]
PyFloat(h) == [t |-> "float", n |-> h, s |-> "", e |-> <<>>]
PyStr(x) == [t |-> "str", n |-> 0, s |-> x, e |-> <<>>]
PySeq(xs) == [t |-> "seq", n |-> 0, s |-> "", e |-> xs]
PyObj(name) == [t |-> "obj", n |-> 0, s |-> name, e |-> <<>>]

\* `val is True`
IsTrue(val) == val.t = "bool" /\ val.n = 1

\* bool(val): the truth value Python gives `val`
Truthy(val) ==
    CASE val.t = "None" -> FALSE
      [] val.t = "bool" -> val.n = 1
      [] val.t = "int" -> val.n # 0
      [] val.t = "float" -> val.n # 0
      [] val.t = "str" -> val.s # ""
      [] val.t = "seq" -> val.e # <<>>
      [] OTHER -> TRUE

\* `val is 0`: identity with the interned small integer 0 (CPython); a float
\* zero, False and None are other objects.
IsIntZero(val) == val.t = "int" /\ val.n = 0

\* isinstance(val, basestring)
IsString(val) == val.t = "str"

\* iter(val) succeeds
IsIterable(val) == val.t \in {"str", "seq"}

-----------------------------------------------------------------------------
(* str.format for the format strings the module uses *)

Digit(d) ==
    CASE d = 0 -> "0" [] d = 1 -> "1" [] d = 2 -> "2" [] d = 3 -> "3"
      [] d = 4 -> "4" [] d = 5 -> "5" [] d = 6 -> "6" [] d = 7 -> "7"
      [] d = 8 -> "8" [] d = 9 -> "9"

RECURSIVE NatStr(_)
NatStr(n) == IF n < 10 THEN Digit(n) ELSE NatStr(n \div 10) \o Digit(n % 10)

IntStr(i) == IF i < 0 THEN "-" \o NatStr(0 - i) ELSE NatStr(i)

\* A float given in hundredths, written with two decimals.
Fixed2(h) ==
    LET a == IF h < 0 THEN 0 - h ELSE h
    IN  (IF h < 0 THEN "-" ELSE "") \o NatStr(a \div 100) \o "."
            \o Digit((a \div 10) % 10) \o Digit(a % 10)

Ok(text) == [ok |-> TRUE, s |-> text, exc |-> ""]
Raise(exc) == [ok |-> FALSE, s |-> "", exc |-> exc]

\* pat.format(v) for a one-field format string `pat` and a scalar `v`.  A
\* presentation type the value's type does not know is a ValueError.
Format(pat, v) ==
    CASE pat = "{:d}" ->
            IF v.t = "int" THEN Ok(IntStr(v.n)) ELSE Raise("ValueError")
      [] pat = "{:.2f}" ->
            IF v.t = "int" THEN Ok(IntStr(v.n) \o ".00")
            ELSE IF v.t = "float" THEN Ok(Fixed2(v.n))
            ELSE Raise("ValueError")
      [] pat = "{:.3f}" ->
            IF v.t = "int" THEN Ok(IntStr(v.n) \o ".000")
            ELSE IF v.t = "float" THEN Ok(Fixed2(v.n) \o "0")
            ELSE Raise("ValueError")
      [] pat = "{:s}" ->
            IF v.t = "str" THEN Ok(v.s) ELSE Raise("ValueError")

\* delim.join(strs)
RECURSIVE Join(_, _)
Join(strs, delim) ==
    IF strs = <<>> THEN ""
    ELSE IF Len(strs) = 1 THEN strs[1]
    ELSE strs[1] \o delim \o Join(Tail(strs), delim)

Min(a, b) == IF a < b THEN a ELSE b

-----------------------------------------------------------------------------
(* class FlagFormatter *)

\* A format rule: one format string (seq = FALSE, p = <<pattern>>) or a list
\* or tuple of format strings (seq = TRUE).
One(pat) == [seq |-> FALSE, p |-> <<pat>>]
Many(pats) == [seq |-> TRUE, p |-> pats]

\* The keys of the default fmt_dict.
RegisteredKeys ==
    {"dAv", "diskAv", "dAvy", "zerobin", "incmult", "incmultsig", "errmult",
     "errmultsig", "logterr", "logterrsig", "mbolerr", "mbolerrsig", "mcseed",
     "alpha", "dt", "nburn", "nmc", "nt", "nsfr", "pscape", "tint"}

\* self.fmt_dict as __init__ first builds it.
DefaultFmtDict ==
    [k \in RegisteredKeys |->
        IF k \in {"zerobin", "nburn", "nmc", "nt", "nsfr"}
        THEN One("{:d}") ELSE One("{:.2f}")]

\* FlagFormatter(**kwargs): a keyword replaces the format of a key the
\* default dictionary has, and is ignored otherwise.
FlagFormatterInit(kwargs) ==
    [k \in RegisteredKeys |->
        IF k \in DOMAIN kwargs THEN kwargs[k] ELSE DefaultFmtDict[k]]

ListOk(strs) == [ok |-> TRUE, list |-> strs, exc |-> ""]
ListRaise(exc) == [ok |-> FALSE, list |-> <<>>, exc |-> exc]

\* The strings of a sequence of format results, or the first error in it.
Collect(rs) ==
    IF \E i \in DOMAIN rs : ~rs[i].ok
    THEN ListRaise(rs[CHOOSE i \in DOMAIN rs :
                        ~rs[i].ok /\ \A j \in 1..(i - 1) : rs[j].ok].exc)
    ELSE ListOk([i \in DOMAIN rs |-> rs[i].s])

\* [f.format(v) for v, f in zip(val, fmt)].  zip stops at the shorter of its
\* arguments.  When fmt is one format string zip pairs the values with its
\* characters, and the first of them, "{", is not a format string.
ZipFormat(val, fmt) ==
    IF ~IsIterable(val) THEN ListRaise("TypeError")
    ELSE IF val.e = <<>> THEN ListOk(<<>>)
    ELSE IF ~fmt.seq THEN ListRaise("ValueError")
    ELSE Collect([i \in 1..Min(Len(val.e), Len(fmt.p)) |->
                    Format(fmt.p[i], val.e[i])])

\* [fmt.format(v) for v in val]
EachFormat(val, fmt) ==
    IF ~IsIterable(val) THEN ListRaise("TypeError")
    ELSE IF fmt.seq THEN ListRaise("AttributeError")
    ELSE Collect([i \in 1..Len(val.e) |-> Format(fmt.p[1], val.e[i])])

\* [fmt.format(val)]
SingleFormat(val, fmt) ==
    IF fmt.seq THEN ListRaise("AttributeError")
    ELSE Collect(<<Format(fmt.p[1], val)>>)

\* The try / except ladder for a value that is not a string.
NonStringFormat(val, fmt) ==
    LET zipped == ZipFormat(val, fmt)
        each == EachFormat(val, fmt)
    IN  IF zipped.ok \/ zipped.exc \notin {"TypeError", "ValueError"}
        THEN zipped
        ELSE IF each.ok \/ each.exc # "TypeError" THEN each
        ELSE SingleFormat(val, fmt)

\* valstr_list, or the error raised while building it.
ValstrList(val, fmt) ==
    IF IsString(val) THEN SingleFormat(val, fmt)
    ELSE NonStringFormat(val, fmt)

Returned(text, strs) ==
    [kind |-> "str", s |-> text, exc |-> "", valstr_list |-> strs]
ReturnedNone == [kind |-> "None", s |-> "", exc |-> "", valstr_list |-> <<>>]
Raised(exc) == [kind |-> "raise", s |-> "", exc |-> exc, valstr_list |-> <<>>]

\* The branch of __call__ that formats the value.
FormatBranch(fmt_dict, key, val, delim) ==
    IF key \notin DOMAIN fmt_dict THEN Raised("KeyError")
    ELSE LET l == ValstrList(val, fmt_dict[key])
         IN  IF l.ok
             THEN Returned("-" \o key \o "=" \o Join(l.list, delim), l.list)
             ELSE Raised(l.exc)

\* A slip: `val is not None` for `val or val is 0`.
MeaningfulNotNone(val) == val.t # "None"

\* `val or val is 0`
Meaningful(val) == Truthy(val) \/ IsIntZero(val)

\* FlagFormatter.__call__(key, val, delim) on an instance whose fmt_dict is
\* `fmt_dict`: what it returns or raises.
Call(fmt_dict, key, val, delim) ==
    IF IsTrue(val) THEN Returned("-" \o key, <<>>)
    ELSE IF Meaningful(val) THEN FormatBranch(fmt_dict, key, val, delim)
    ELSE ReturnedNone

\* A slip: `fmt = self.fmt_dict.pop(key)` for `fmt = self.fmt_dict[key]`.
FmtDictPopped(fmt_dict, key, val) ==
    IF IsTrue(val) \/ ~Meaningful(val) THEN fmt_dict
    ELSE [k \in DOMAIN fmt_dict \ {key} |-> fmt_dict[k]]

\* self.fmt_dict when __call__ is over: the method only reads it.
FmtDictAfterCall(fmt_dict, key, val) == fmt_dict

-----------------------------------------------------------------------------
(* State *)

VARIABLES
    fmt_dict,       \* fmt_dict of the FlagFormatter instance the caller holds
    ctor,           \* the keywords that instance was constructed with
    f_called,       \* the caller has called the instance directly
    f_key, f_val, f_delim,  \* arguments of the last direct call
    f_res,          \* what the last direct call returned or raised
    pc,             \* position of the current builder call
    builder,        \* the builder called
    args,           \* its positional arguments, in the order of the signature
    given,          \* the keyword options as the caller's dict holds them
    kwargs,         \* the call's own kwargs dict
    flag_list,      \* the flags the call hands to the formatter, in order
    formatter,      \* the formatter object the call uses
    flagstr_list,   \* the tokens that are not None
    cmd,            \* the command string
    result,         \* the value the call returned
    exc,            \* the error the call raised, "" if none
    ncalls,         \* subprocess.call invocations made by the current call
    ran,            \* the string subprocess.call was given
    held,           \* a call the caller repeats: its builder, files, options
    memo            \* what the first norun call of `held` returned

fvars == <<fmt_dict, ctor, f_called, f_key, f_val, f_delim, f_res>>
bvars == <<pc, builder, args, given, kwargs, flag_list, formatter,
           flagstr_list, cmd, result, exc, ncalls, ran>>
hvars == <<held, memo>>
vars == <<fvars, bvars, hvars>>

\* A dict with no entry.
EmptyDict == [k \in {} |-> PyNone]

\* dict.get(key): None when the key is missing
Get(d, key) == IF key \in DOMAIN d THEN d[key] ELSE PyNone

\* d[key] = val
Put(d, key, val) ==
    [k \in DOMAIN d \cup {key} |-> IF k = key THEN val ELSE d[k]]

-----------------------------------------------------------------------------
(* Direct calls of a FlagFormatter instance *)

\* Format strings and rules the caller may register.
Patterns == {"{:.2f}", "{:.3f}", "{:d}", "{:s}"}
SeqPatterns == {"{:.2f}", "{:d}"}
SeqRules == UNION {[1..n -> SeqPatterns] : n \in 1..MaxLen}
Rules == {One(pat) : pat \in Patterns} \cup {Many(ps) : ps \in SeqRules}
         \cup {Many(<<"{:s}", "{:s}">>)}

\* Constructor keywords: none, one registered key, or a key the default
\* dictionary does not have.
CtorKwargs ==
    {EmptyDict} \cup {("diskAv" :> r) : r \in Rules}
        \cup {("zerobin" :> One(pat)) : pat \in Patterns}
        \cup {("appDmod" :> One("{:s}")), ("param" :> One("{:s}"))}

\* Values a flag may be given.
Elements == {PyInt(3), PyFloat(-20)}
SeqValues == {PySeq(es) : es \in UNION {[1..n -> Elements] : n \in 0..MaxLen}}
                \cup {PySeq(<<PyInt(0), PyFloat(150)>>),
                      PySeq(<<PyStr("a"), PyStr("b")>>)}
ScalarValues ==
    {PyNone, PyBool(TRUE), PyBool(FALSE), PyInt(0), PyInt(7), PyInt(-12),
     PyFloat(0), PyFloat(150), PyFloat(-20), PyStr(""), PyStr("ab"),
     PyStr("x")}
Values == ScalarValues \cup SeqValues

CallKeys == RegisteredKeys \cup {"appDmod", "absolute"}
Delims == {",", ":"}

NoResult == [kind |-> "", s |-> "", exc |-> "", valstr_list |-> <<>>]

FmtInit ==
    /\ ctor = EmptyDict
    /\ fmt_dict = FlagFormatterInit(EmptyDict)
    /\ f_called = FALSE
    /\ f_key = ""
    /\ f_val = PyNone
    /\ f_delim = ","
    /\ f_res = NoResult

\* FlagFormatter(**kw)
Construct(kw) ==
    /\ ~f_called
    /\ ctor' = kw
    /\ fmt_dict' = FlagFormatterInit(kw)
    /\ f_called' = FALSE
    /\ f_key' = ""
    /\ f_val' = PyNone
    /\ f_delim' = ","
    /\ f_res' = NoResult

\* formatter(key, val, delim)
FormatterCall(key, val, delim) ==
    /\ ~f_called
    /\ f_called' = TRUE
    /\ f_key' = key
    /\ f_val' = val
    /\ f_delim' = delim
    /\ f_res' = Call(fmt_dict, key, val, delim)
    /\ fmt_dict' = FmtDictAfterCall(fmt_dict, key, val)
    /\ UNCHANGED ctor

\* The caller is done with what the call returned.
Forget ==
    /\ f_called
    /\ f_called' = FALSE
    /\ f_key' = ""
    /\ f_val' = PyNone
    /\ f_delim' = ","
    /\ f_res' = NoResult
    /\ UNCHANGED <<fmt_dict, ctor, bvars, hvars>>

-----------------------------------------------------------------------------
(* The command builders *)

\* A formatter the caller wrote: any function of (key, val) that returns a
\* string or None.  This one writes every flag that is set as "--key".
CustomFormatter(key, val) ==
    IF val.t = "None" \/ (val.t = "bool" /\ val.n = 0) THEN ReturnedNone
    ELSE Returned("--" \o key, <<>>)

\* formatter(flag, val) for a formatter object: the caller's function, or a
\* FlagFormatter instance whose fmt_dict is `fd`.
ApplyFormatter(fobj, fd, flag, val) ==
    IF fobj = "custom" THEN CustomFormatter(flag, val)
    ELSE Call(fd, flag, val, ",")

\* The fmt_dict of the formatter when it is called for flags[i]: every
\* earlier call of the loop has run on it.
RECURSIVE DictBefore(_, _, _, _, _)
DictBefore(fobj, fd, flags, kw, i) ==
    IF i = 1 \/ fobj = "custom" THEN fd
    ELSE FmtDictAfterCall(DictBefore(fobj, fd, flags, kw, i - 1),
                          flags[i - 1], Get(kw, flags[i - 1]))

\* [flagstr for flagstr in (formatter(flag, kwargs.get(flag)) for flag in
\* flag_list) if flagstr]: the tokens kept, the error that ended the loop
\* ("" if none), and the fmt_dict of the formatter when the loop is over.
FlagStrings(fobj, fd, flags, kw) ==
    LET n == Len(flags)
        rs == [i \in 1..n |->
                ApplyFormatter(fobj, DictBefore(fobj, fd, flags, kw, i),
                               flags[i], Get(kw, flags[i]))]
        bad == {i \in 1..n : rs[i].kind = "raise"}
        stop == IF bad = {} THEN n
                ELSE CHOOSE i \in bad : \A j \in bad : i <= j
    IN  [tokens |-> SelectSeq([i \in 1..n |-> rs[i].s], LAMBDA t : t # ""),
         exc |-> IF bad = {} THEN "" ELSE rs[stop].exc,
         fmt_dict |-> DictBefore(fobj, fd, flags, kw, stop + 1)]

\* A slip: hybridMC constructs FlagFormatter() as zcmerge and zcombine do.
SelectFormatterCalcsfhOnly(b, kw) ==
    IF b = "calcsfh" /\ "formatter" \in DOMAIN kw THEN kw["formatter"].s
    ELSE "fresh"

\* The formatter object a builder uses: "fresh" is a FlagFormatter() made
\* by the call, "shared" the instance the caller holds, "custom" the
\* caller's function.  calcsfh and hybridMC read kwargs.get('formatter',
\* FlagFormatter()); zcmerge and zcombine construct FlagFormatter().
SelectFormatter(b, kw) ==
    IF b \in {"calcsfh", "hybridMC"} /\ "formatter" \in DOMAIN kw
    THEN kw["formatter"].s
    ELSE "fresh"

\* The fmt_dict the selected formatter starts the call with.
FormatterDict(fobj, shared) ==
    IF fobj = "shared" THEN shared ELSE FlagFormatterInit(EmptyDict)

\* cmd = '{0:s} {1:s}'.format(cmd, ' '.join(flagstr_list)) if flagstr_list
WithFlags(prefix, tokens) ==
    IF tokens # <<>> THEN prefix \o " " \o Join(tokens, " ") ELSE prefix

\* cmd = '{0:s} > {1:s}'.format(cmd, outfile) if outfile
WithOutfile(text, kw) ==
    IF Truthy(Get(kw, "outfile")) THEN text \o " > " \o Get(kw, "outfile").s
    ELSE text

\* ' '.join(paths) unless `paths` is one string
Paths(paths) ==
    IF IsString(paths) THEN paths.s
    ELSE Join([i \in DOMAIN paths.e |-> paths.e[i].s], " ")

\* kwargs after `sel = kwargs.get(name); if sel: kwargs[sel] = True`
Marked(kw, name) ==
    IF Truthy(Get(kw, name)) THEN Put(kw, Get(kw, name).s, PyBool(TRUE))
    ELSE kw

\* What `sel = kwargs.get(name); if sel: flag_list.append(sel)` appends.
Selected(kw, name) ==
    IF Truthy(Get(kw, name)) THEN <<Get(kw, name).s>> ELSE <<>>

\* A slip: a mode of the exclusive group listed among the other mode flags.
ModeFlagsWithSetz ==
    <<"setz", "ddist", "full", "verb", "allstars", "mcdata", "allmcdata">>

ModeFlags == <<"ddist", "full", "verb", "allstars", "mcdata", "allmcdata">>
ModelFlags ==
    <<"dAv", "diskAv", "dAvy", "appDmod", "zerobin", "incmult", "incmultsig",
      "errmult", "errmultsig", "logterr", "logterrsig", "mbolerr",
      "mbolerrsig", "mcseed">>

\* A slip: `alpha` appended for every model.
AlphaFlagAnyModel(kw) ==
    IF Truthy(Get(kw, "model")) THEN <<"alpha">> ELSE <<>>

\* What `if modelflag in ['DART']: flag_list.append('alpha')` appends, inside
\* `if modelflag:`.
AlphaFlag(kw) ==
    IF Truthy(Get(kw, "model")) /\ Get(kw, "model").s \in {"DART"}
    THEN <<"alpha">> ELSE <<>>

\* calcsfh: kwargs when the flag strings are about to be made.
CalcsfhKwargs(kw) ==
    Marked(Marked(Marked(kw, "mode"), "model"), "transformation")

\* calcsfh: flag_list when the flag strings are about to be made.
CalcsfhFlagList(kw) ==
    Selected(kw, "mode") \o ModeFlags \o ModelFlags
        \o Selected(Marked(kw, "mode"), "model")
        \o AlphaFlag(Marked(kw, "mode"))
        \o Selected(Marked(Marked(kw, "mode"), "model"), "transformation")

HybridMCFlags ==
    <<"countall", "dt", "keepall", "nburn", "nmc", "nt", "nsfr", "pscape",
      "tint">>

ZcombineFlags ==
    <<"param", "out", "bestonly", "unweighted", "jeffreys", "best", "sigma",
      "pct16_84", "fullwidth", "meanbest", "medbest">>

\* kwargs of builder `b` when the flag strings are about to be made.
Kwargs(b, kw) == IF b = "calcsfh" THEN CalcsfhKwargs(kw) ELSE kw

\* flag_list of builder `b`.
FlagList(b, kw) ==
    CASE b = "calcsfh" -> CalcsfhFlagList(kw)
      [] b = "hybridMC" -> HybridMCFlags
      [] b = "zcmerge" -> <<"absolute">>
      [] b = "zcombine" -> ZcombineFlags

\* The command string of builder `b` from its positional arguments, its
\* tokens and its kwargs.
Command(b, a, tokens, kw) ==
    CASE b = "calcsfh" ->
            WithOutfile(WithFlags("calcsfh " \o a[1].s \o " " \o a[2].s \o " "
                                    \o a[3].s \o " " \o a[4].s, tokens), kw)
      [] b = "hybridMC" ->
            WithOutfile(WithFlags("hybridMC " \o a[2].s \o " " \o a[1].s,
                                  tokens), kw)
      [] b = "zcmerge" ->
            WithFlags("zcmerge", tokens) \o " " \o Paths(a[1]) \o " > "
                \o a[2].s
      [] b = "zcombine" ->
            WithFlags("zcombine", tokens) \o " " \o Paths(a[1]) \o " > "
                \o a[2].s

\* A slip: the command is run whatever `norun` is.
NorunIgnored(kw) == FALSE

\* `norun = kwargs.get('norun'); if norun:`
Norun(kw) == Truthy(Get(kw, "norun"))

-----------------------------------------------------------------------------
(* Builder calls *)

\* No builder call is in progress.
Idle ==
    /\ pc = "idle"
    /\ builder = ""
    /\ args = <<>>
    /\ given = EmptyDict
    /\ kwargs = EmptyDict
    /\ flag_list = <<>>
    /\ formatter = ""
    /\ flagstr_list = <<>>
    /\ cmd = ""
    /\ result = PyNone
    /\ exc = ""
    /\ ncalls = 0
    /\ ran = ""

NoDirectCall ==
    /\ f_called = FALSE
    /\ f_key = ""
    /\ f_val = PyNone
    /\ f_delim = ","
    /\ f_res = NoResult

NoMemo == [count |-> 0, kind |-> "", s |-> ""]

\* The caller's record of the call it repeats: what the first norun call
\* returned or raised, and whether it has been made once or more often.
Remember(b, a, opts, kind, text) ==
    IF [builder |-> b, args |-> a, given |-> opts] = held /\ Norun(opts)
    THEN IF memo.count = 0 THEN [count |-> 1, kind |-> kind, s |-> text]
         ELSE [memo EXCEPT !.count = 2]
    ELSE memo

\* builder b(*a, **opts) up to `# Flag strings`: kwargs is a dict of the
\* call's own, and the flags are selected.
Enter(b, a, opts) ==
    /\ pc = "idle"
    /\ pc' = "selected"
    /\ builder' = b
    /\ args' = a
    /\ given' = opts
    /\ kwargs' = Kwargs(b, opts)
    /\ flag_list' = FlagList(b, opts)
    /\ UNCHANGED <<fvars, hvars, formatter, flagstr_list, cmd, result, exc,
                   ncalls, ran>>

\* From `# Flag strings` to the read of `norun`: the flags are formatted and
\* the command string is put together, or the formatter raises.
Assemble ==
    /\ pc = "selected"
    /\ formatter' = SelectFormatter(builder, kwargs)
    /\ LET fs == FlagStrings(formatter', FormatterDict(formatter', fmt_dict),
                             flag_list, kwargs)
       IN  /\ fmt_dict' = IF formatter' = "shared" THEN fs.fmt_dict
                          ELSE fmt_dict
           /\ exc' = fs.exc
           /\ flagstr_list' = IF fs.exc # "" THEN <<>> ELSE fs.tokens
    /\ IF exc' # ""
       THEN /\ pc' = "raised"
            /\ cmd' = ""
            /\ memo' = Remember(builder, args, given, "raised", exc')
       ELSE /\ pc' = "assembled"
            /\ cmd' = Command(builder, args, flagstr_list', kwargs)
            /\ memo' = memo
    /\ UNCHANGED <<ctor, f_called, f_key, f_val, f_delim, f_res, held,
                   builder, args, given, kwargs, flag_list, result, ncalls,
                   ran>>

\* The end of every builder: return the string, or hand it to
\* subprocess.call(cmd, shell=True) and return None.
Dispatch ==
    /\ pc = "assembled"
    /\ pc' = "returned"
    /\ IF Norun(kwargs)
       THEN /\ result' = PyStr(cmd)
            /\ UNCHANGED <<ncalls, ran>>
       ELSE /\ ncalls' = ncalls + 1
            /\ ran' = cmd
            /\ result' = PyNone
    /\ memo' = Remember(builder, args, given, "returned", cmd)
    /\ UNCHANGED <<fvars, builder, args, given, kwargs, flag_list, formatter,
                   flagstr_list, cmd, exc, held>>

\* The call is over and its frame is gone.
Finish ==
    /\ pc \in {"returned", "raised"}
    /\ pc' = "idle"
    /\ builder' = ""
    /\ args' = <<>>
    /\ given' = EmptyDict
    /\ kwargs' = EmptyDict
    /\ flag_list' = <<>>
    /\ formatter' = ""
    /\ flagstr_list' = <<>>
    /\ cmd' = ""
    /\ result' = PyNone
    /\ exc' = ""
    /\ ncalls' = 0
    /\ ran' = ""
    /\ UNCHANGED <<fvars, hvars>>

-----------------------------------------------------------------------------
(* The calls the caller makes *)

Opt(name, vals) == {EmptyDict} \cup {(name :> v) : v \in vals}

ModeOpts == Opt("mode", {PyStr("setz"), PyStr("ssp"), PyStr("zinc")})
ModelOpts == Opt("model", {PyStr("DART"), PyStr("BASTI")})
TransOpts == Opt("transformation", {PyStr("DART"), PyStr("BASTI")})
AlphaOpts == Opt("alpha", {PyInt(0), PyFloat(0), PyFloat(-20)})
FormatterOpts == Opt("formatter", {PyObj("shared"), PyObj("custom")})
OutfileOpts == Opt("outfile", {PyStr("log")})
NorunOpts == Opt("norun", {PyBool(TRUE), PyBool(FALSE)})

CalcsfhExtras ==
    {EmptyDict,
     ("setz" :> PyBool(TRUE)),
     ("zinc" :> PyBool(TRUE)) @@ ("full" :> PyBool(TRUE)),
     ("zerobin" :> PyInt(0)),
     ("dAv" :> PySeq(<<PyFloat(10), PyFloat(25), PyFloat(5)>>)),
     ("appDmod" :> PyStr("24.5")),
     ("outfile" :> PyStr("log"))}

CalcsfhOpts ==
    {m @@ mo @@ t @@ al @@ x @@ f @@ n :
        m \in ModeOpts, mo \in ModelOpts, t \in TransOpts, al \in AlphaOpts,
        x \in CalcsfhExtras, f \in FormatterOpts, n \in NorunOpts}

CalcsfhArgs == {<<PyStr("par"), PyStr("phot"), PyStr("fake"), PyStr("sfh")>>}

HybridMCExtras ==
    {EmptyDict,
     ("countall" :> PyBool(TRUE)),
     ("dt" :> PyFloat(5)) @@ ("nmc" :> PyInt(1000)),
     ("nburn" :> PyInt(0)) @@ ("keepall" :> PyBool(FALSE)),
     ("tint" :> PyFloat(0)),
     ("nt" :> PyFloat(250))}

HybridMCOpts ==
    {x @@ f @@ o @@ n :
        x \in HybridMCExtras, f \in FormatterOpts, o \in OutfileOpts,
        n \in NorunOpts}

HybridMCArgs == {<<PyStr("a.dat"), PyStr("b.sfh")>>}

\* One path, or a list of one to MaxFiles paths.
FileNames == {"real.zcb", "sim.zcb"}
FileLists ==
    {PyStr("real.zcb")}
        \cup {PySeq([i \in DOMAIN fs |-> PyStr(fs[i])]) :
                fs \in UNION {[1..n -> FileNames] : n \in 1..MaxFiles}}

ZcmergeOpts ==
    {x @@ f @@ n :
        x \in Opt("absolute", {PyBool(TRUE), PyBool(FALSE), PyStr("yes")}),
        f \in FormatterOpts, n \in NorunOpts}

ZcmergeArgs == {<<l, PyStr("merged.zcb")>> : l \in FileLists}

ZcombineExtras ==
    {EmptyDict,
     ("bestonly" :> PyBool(TRUE)),
     ("unweighted" :> PyBool(TRUE)) @@ ("medbest" :> PyBool(TRUE)),
     ("param" :> PyStr("pars")),
     ("out" :> PyStr("o.txt")),
     ("best" :> PyStr("fit"))}

ZcombineOpts ==
    {x @@ f @@ n :
        x \in ZcombineExtras, f \in FormatterOpts, n \in NorunOpts}

ZcombineArgs == {<<l, PyStr("out.zcb")>> : l \in FileLists}

\* The instance the caller holds is constructed with one of these.
HeldCtors == {EmptyDict, ("alpha" :> One("{:.3f}"))}

NoHeld == [builder |-> "", args |-> <<>>, given |-> EmptyDict]

Init ==
    /\ ctor \in HeldCtors
    /\ fmt_dict = FlagFormatterInit(ctor)
    /\ NoDirectCall
    /\ Idle
    /\ held = NoHeld
    /\ memo = NoMemo

\* calcsfh(paramfile, photfile, fakefile, sfhfile, **opts) is called
CallCalcsfh ==
    /\ pc = "idle"
    /\ \E a \in CalcsfhArgs, opts \in CalcsfhOpts : Enter("calcsfh", a, opts)

\* hybridMC(hmcdatfile, hmcsfhfile, **opts) is called
CallHybridMC ==
    /\ pc = "idle"
    /\ \E a \in HybridMCArgs, opts \in HybridMCOpts :
          Enter("hybridMC", a, opts)

\* zcmerge(zcbfile_list, merged_zcbfile, **opts) is called
CallZcmerge ==
    /\ pc = "idle"
    /\ \E a \in ZcmergeArgs, opts \in ZcmergeOpts : Enter("zcmerge", a, opts)

\* zcombine(sfhfile, zcbfile, **opts) is called
CallZcombine ==
    /\ pc = "idle"
    /\ \E a \in ZcombineArgs, opts \in ZcombineOpts :
          Enter("zcombine", a, opts)

Next ==
    \/ CallCalcsfh
    \/ CallHybridMC
    \/ CallZcmerge
    \/ CallZcombine
    \/ Assemble
    \/ Dispatch
    \/ Finish

\* The builders, called one after another with any of the options above.
Spec == Init /\ [][Next]_vars

FmtSpecInit ==
    /\ FmtInit
    /\ Idle
    /\ held = NoHeld
    /\ memo = NoMemo

\* The caller constructs a new instance.
Reconstruct ==
    /\ ~f_called
    /\ \E kw \in CtorKwargs : Construct(kw)
    /\ UNCHANGED <<bvars, hvars>>

\* The caller calls the instance.
DirectCall ==
    /\ ~f_called
    /\ \E key \in CallKeys, val \in Values, delim \in Delims :
          FormatterCall(key, val, delim)
    /\ UNCHANGED <<bvars, hvars>>

FmtNext ==
    \/ Reconstruct
    \/ DirectCall
    \/ Forget

\* A FlagFormatter instance, constructed and called directly.
FmtSpec == FmtSpecInit /\ [][FmtNext]_vars

-----------------------------------------------------------------------------
(* A caller that repeats one call *)

IdemCalcsfhOpts ==
    {m @@ mo @@ x @@ f @@ n :
        m \in Opt("mode", {PyStr("ssp")}),
        mo \in {EmptyDict, ("model" :> PyStr("DART")) @@ ("alpha" :> PyFloat(20))},
        x \in {EmptyDict,
               ("dAv" :> PySeq(<<PyFloat(10), PyFloat(25), PyFloat(5)>>)),
               ("appDmod" :> PyStr("24.5"))},
        f \in FormatterOpts,
        n \in Opt("norun", {PyBool(TRUE)})}

IdemHybridMCOpts ==
    {x @@ f @@ n :
        x \in {EmptyDict, ("dt" :> PyFloat(5)) @@ ("nmc" :> PyInt(1000))},
        f \in FormatterOpts,
        n \in {("norun" :> PyBool(TRUE))}}

IdemZcOpts ==
    {x @@ n :
        x \in {EmptyDict, ("absolute" :> PyBool(TRUE)),
               ("bestonly" :> PyBool(TRUE))},
        n \in {("norun" :> PyBool(TRUE))}}

IdemZcArgs ==
    {<<PyStr("real.zcb"), PyStr("all.zcb")>>,
     <<PySeq(<<PyStr("real.zcb"), PyStr("sim.zcb")>>), PyStr("all.zcb")>>}

TheCall(b, a, opts) == [builder |-> b, args |-> a, given |-> opts]

IdemCalls ==
    {TheCall("calcsfh", a, o) : a \in CalcsfhArgs, o \in IdemCalcsfhOpts}
        \cup {TheCall("hybridMC", a, o) :
                a \in HybridMCArgs, o \in IdemHybridMCOpts}
        \cup {TheCall("zcmerge", a, o) : a \in IdemZcArgs, o \in IdemZcOpts}
        \cup {TheCall("zcombine", a, o) : a \in IdemZcArgs, o \in IdemZcOpts}

\* The calls the caller repeats: dry runs, and of calcsfh those that select
\* a mode and a model.
HeldCalls ==
    {c \in IdemCalls :
        /\ Norun(c.given)
        /\ c.builder = "calcsfh" =>
              {"mode", "model"} \subseteq DOMAIN c.given}

IdemInit ==
    /\ ctor \in HeldCtors
    /\ fmt_dict = FlagFormatterInit(ctor)
    /\ NoDirectCall
    /\ Idle
    /\ held \in HeldCalls
    /\ memo = NoMemo

\* The caller makes the call it repeats.
CallHeld ==
    /\ pc = "idle"
    /\ Enter(held.builder, held.args, held.given)

\* The caller makes any call.
CallOther ==
    /\ pc = "idle"
    /\ \E c \in IdemCalls : Enter(c.builder, c.args, c.given)

IdemNext ==
    \/ CallHeld
    \/ CallOther
    \/ Assemble
    \/ Dispatch
    \/ Finish

\* The builders, called by a caller that repeats one of its calls with the
\* same options and the same formatter among other calls.
IdemSpec == IdemInit /\ [][IdemNext]_vars

-----------------------------------------------------------------------------
(* Properties of FlagFormatter.__call__, under FmtSpec *)

\* C1: for a registered flag name, True gives exactly the token "-name",
\* whatever the rule of the name, and False, None and an empty sequence give
\* None; neither raises.
C1_ValuelessOutcome ==
    (f_called /\ f_key \in RegisteredKeys) =>
        /\ IsTrue(f_val) => f_res = Returned("-" \o f_key, <<>>)
        /\ f_val \in {PyBool(FALSE), PyNone, PySeq(<<>>), PyStr("")} =>
              f_res = ReturnedNone

\* True was given for a flag whose rule is a sequence of format strings.
C1_Witness ==
    /\ f_called
    /\ f_key = "diskAv"
    /\ fmt_dict["diskAv"].seq
    /\ IsTrue(f_val)
    /\ f_res.kind = "str"
    /\ f_res.s = "-diskAv"

\* C2: for a registered flag name, a numeric zero (the integer 0 or a
\* floating-point zero) is never suppressed: the call does not return None.
C2_ZeroNeverSuppressed ==
    (/\ f_called
     /\ f_key \in RegisteredKeys
     /\ f_val.t \in {"int", "float"}
     /\ f_val.n = 0) => f_res.kind # "None"

\* C3: a non-empty string given for a flag whose rule is a sequence of format
\* strings is formatted as one value, and nothing is raised.
C3_StringAtomic ==
    (/\ f_called
     /\ f_key \in RegisteredKeys
     /\ IsString(f_val)
     /\ f_val.s # ""
     /\ fmt_dict[f_key].seq) =>
        /\ f_res.kind = "str"
        /\ Len(f_res.valstr_list) = 1

-----------------------------------------------------------------------------
(* Properties of the builders, under Spec *)

\* The flag strings of the current call are made.
Assembled == pc \in {"assembled", "returned"}

\* The token the formatter of the current call gives flag `flag` for `val`
\* ("" when it gives None).
Token(flag, val) ==
    ApplyFormatter(formatter, FormatterDict(formatter, fmt_dict), flag,
                   val).s

\* The indices of the tokens of the command that are in `tokens`.
Places(tokens) == {i \in DOMAIN flagstr_list : flagstr_list[i] \in tokens}

\* Every string "-alpha=<value>" a FlagFormatter can write for the alpha
\* values and the format strings of this model.
AlphaValueTokens ==
    {"-alpha=" \o Format(pat, v["alpha"]).s :
        pat \in {p \in Patterns : p # "{:s}"},
        v \in AlphaOpts \ {EmptyDict}}

\* C4: calcsfh writes no token "-alpha=..." unless model is 'DART', even
\* when alpha is given; with model 'DART' and an alpha the formatter
\* renders, the alpha token comes right after the model token and before
\* the transformation token.
C4_AlphaOnlyForDart ==
    (Assembled /\ builder = "calcsfh") =>
        LET n == Len(flagstr_list)
            trans == IF "transformation" \in DOMAIN given THEN 1 ELSE 0
            alpha == Token("alpha", Get(given, "alpha"))
        IN  IF Get(given, "model") # PyStr("DART")
            THEN Places(AlphaValueTokens \cup {"--alpha"}) = {}
            ELSE alpha # "" =>
                    /\ Places({alpha}) = {n - trans}
                    /\ n - trans > 1
                    /\ flagstr_list[n - trans - 1] = Token("DART", PyBool(TRUE))
                    /\ trans = 1 =>
                          flagstr_list[n] =
                              Token(given["transformation"].s, PyBool(TRUE))
                    /\ formatter # "custom" => alpha \in AlphaValueTokens

\* alpha = -0.2 was given with model 'BASTI': the command has the model
\* token and no alpha token.
C4_Witness ==
    /\ pc = "returned"
    /\ builder = "calcsfh"
    /\ formatter = "fresh"
    /\ Get(given, "model") = PyStr("BASTI")
    /\ Get(given, "alpha") = PyFloat(-20)
    /\ flagstr_list = <<"-BASTI">>

ModeTokens == {Token("setz", PyBool(TRUE)), Token("ssp", PyBool(TRUE)),
               Token("zinc", PyBool(TRUE))}

\* The tokens of the model and transformation names.
NameTokens == {Token("DART", PyBool(TRUE)), Token("BASTI", PyBool(TRUE))}

Chosen(name) == IF name \in DOMAIN given THEN 1 ELSE 0

\* What the mode, model and transformation selections of calcsfh put in the
\* command: at most one mode token, the token of the mode chosen and of no
\* other mode, and at most one token for the model and one for the
\* transformation.
OnePerGroup ==
    /\ Cardinality(Places(ModeTokens)) = Chosen("mode")
    /\ "mode" \in DOMAIN given =>
          flagstr_list[1] = Token(given["mode"].s, PyBool(TRUE))
    /\ Cardinality(Places(NameTokens)) = Chosen("model") + Chosen("transformation")

\* C5 as stated: one selection per exclusive group, and no token of the
\* command appears twice.
C5_OnePerGroupNoRepeat ==
    (Assembled /\ builder = "calcsfh") =>
        /\ OnePerGroup
        /\ \A i, j \in DOMAIN flagstr_list :
              flagstr_list[i] = flagstr_list[j] => i = j

\* C5, amended: one selection per exclusive group, and a token of the
\* command appears twice only when model and transformation name the same
\* option, whose token is then written once for each.
C5_OnePerGroup ==
    (Assembled /\ builder = "calcsfh") =>
        /\ OnePerGroup
        /\ \A i, j \in DOMAIN flagstr_list :
              (flagstr_list[i] = flagstr_list[j] /\ i < j) =>
                  /\ Get(given, "model") = Get(given, "transformation")
                  /\ flagstr_list[i] = Token(given["model"].s, PyBool(TRUE))
                  /\ j = Len(flagstr_list)
                  /\ Cardinality(Places({flagstr_list[i]})) = 2

\* mode='ssp' was given together with setz=True: the command has "-ssp"
\* and no other mode token.
C5_Witness ==
    /\ pc = "returned"
    /\ builder = "calcsfh"
    /\ formatter = "fresh"
    /\ Get(given, "mode") = PyStr("ssp")
    /\ Get(given, "setz") = PyBool(TRUE)
    /\ Get(given, "model") = PyStr("DART")
    /\ Get(given, "transformation") = PyStr("DART")
    /\ flagstr_list = <<"-ssp", "-DART", "-DART">>

\* C6: a builder call hands its command to subprocess.call at most once and
\* only when the whole string is assembled: never with norun set, when the
\* call returns the string; exactly once, with that string, otherwise, when
\* the call returns None; and never when the formatter raised.
C6_DispatchOnce ==
    /\ ncalls \in {0, 1}
    /\ pc \in {"idle", "selected", "assembled", "raised"} =>
          ncalls = 0 /\ ran = ""
    /\ pc = "returned" =>
          /\ cmd = Command(builder, args, flagstr_list, kwargs)
          /\ IF Truthy(Get(given, "norun"))
             THEN ncalls = 0 /\ ran = "" /\ result = PyStr(cmd)
             ELSE ncalls = 1 /\ ran = cmd /\ result = PyNone
    /\ pc = "raised" => exc # "" /\ result = PyNone

\* zcmerge ran its command, which was whole.
C6_Witness ==
    /\ pc = "returned"
    /\ builder = "zcmerge"
    /\ ncalls = 1
    /\ result = PyNone
    /\ ran = "zcmerge -absolute real.zcb sim.zcb > merged.zcb"

\* The tokens `fobj` gives the flags of the current call.
TokensOf(fobj) ==
    FlagStrings(fobj, FormatterDict(fobj, fmt_dict), flag_list, kwargs)

\* C8 as stated: in each of the four builders a formatter the caller
\* supplies renders every flag, and a fresh FlagFormatter is used only when
\* none is supplied.
C8_FormatterSubstitutable ==
    pc \in {"assembled", "returned", "raised"} =>
        IF "formatter" \in DOMAIN given
        THEN /\ formatter = given["formatter"].s
             /\ exc = TokensOf(given["formatter"].s).exc
             /\ exc = "" => flagstr_list = TokensOf(given["formatter"].s).tokens
        ELSE formatter = "fresh"

\* C8, amended: calcsfh and hybridMC render every flag with the formatter
\* the caller supplies and use a fresh FlagFormatter when none is supplied;
\* zcmerge and zcombine always use a fresh FlagFormatter and ignore a
\* formatter option.
C8_SubstitutableInTwo ==
    pc \in {"assembled", "returned", "raised"} =>
        LET used == IF builder \in {"calcsfh", "hybridMC"}
                        /\ "formatter" \in DOMAIN given
                    THEN given["formatter"].s ELSE "fresh"
        IN  /\ formatter = used
            /\ exc = TokensOf(used).exc
            /\ exc = "" => flagstr_list = TokensOf(used).tokens

\* hybridMC wrote its flags with the caller's function.
C8_Witness ==
    /\ pc = "returned"
    /\ builder = "hybridMC"
    /\ Get(given, "formatter") = PyObj("custom")
    /\ formatter = "custom"
    /\ flagstr_list = <<"--dt", "--nmc">>

\* The options are of the types the docstrings give: `absolute` is a bool.
Documented == Get(given, "absolute").t \in {"None", "bool"}

\* C10: with the default FlagFormatter no builder call ends in a lookup
\* failure: every documented non-boolean option has a format registered.
C10_NoLookupFailure ==
    (pc = "raised" /\ formatter = "fresh" /\ Documented) => exc # "KeyError"

-----------------------------------------------------------------------------
(* Properties of repeated calls, under IdemSpec *)

\* The current call is the one the caller repeats.
IsHeld == TheCall(builder, args, given) = held

\* C7: a builder called again with the same options and norun=True returns
\* the same string (or raises the same error), also when both calls are given
\* the same FlagFormatter instance and other calls are made in between; the
\* calls leave the fmt_dict of the instance as it was constructed, and the
\* caller's options without the entries calcsfh adds to its kwargs.
C7_Idempotent ==
    /\ fmt_dict = FlagFormatterInit(ctor)
    /\ held \in HeldCalls
    /\ (pc \in {"returned", "raised"} /\ IsHeld) =>
          /\ memo.count >= 1
          /\ memo.kind = pc
          /\ memo.s = IF pc = "returned" THEN result.s ELSE exc

\* calcsfh returned the same string a second time, with the caller's
\* FlagFormatter instance and a mode that its kwargs, not the caller's
\* options, hold as a flag.
C7_Witness ==
    /\ pc = "returned"
    /\ IsHeld
    /\ builder = "calcsfh"
    /\ formatter = "shared"
    /\ memo.count = 2
    /\ memo.s = result.s
    /\ "ssp" \in DOMAIN kwargs
    /\ "ssp" \notin DOMAIN given
    /\ Get(given, "alpha") = PyFloat(20)

=============================================================================
